---- MODULE Spec2Model ----
(***************************************************************************)
(* A model of the growable vector of custom_vector_objones25:              *)
(*   src/src/raw_vec.rs  RawVec<T>: the raw buffer and the capacity policy *)
(*   src/src/lib.rs      Vec<T>:    the container (buffer + length)        *)
(*   src/src/iter.rs     Drain:     the range-removal iterator             *)
(*                                                                         *)
(* The element type T is represented by its size in bytes, elem_size.      *)
(* The buffer is the sequence mem of cap slots; slot i of the source is    *)
(* mem[i + 1].  A slot holds an element value or Uninit.  ptr::read and    *)
(* ptr::copy copy bits and leave the source slot as it was, exactly as the *)
(* machine does.                                                           *)
(*                                                                         *)
(* Integers are those of the 32-bit target (raw_vec.rs:19-20).  The        *)
(* model's integers end at 2^31 - 1, so usize::MAX (2^32 - 1) is          *)
(* represented by that largest integer; the model never adds to it: the    *)
(* zero-sized paths that store it return before any arithmetic, and the    *)
(* saturating operations below test for it before they add.                *)
(***************************************************************************)
EXTENDS Integers, Sequences, FiniteSets, TLC

VARIABLES
    elem_size,  \* std::mem::size_of::<T>(), fixed for a behaviour
    debug,      \* TRUE: a build with debug_assert! compiled in
    cap,        \* RawVec.cap
    mem,        \* the allocation RawVec.ptr points to: cap slots (none if T is zero-sized)
    len,        \* Vec.len
    live,       \* the allocations made for the buffer and not released: alloc::alloc
                \* adds one, alloc::dealloc takes one, alloc::realloc does both
    twin,       \* the container the last clone() returned, or NoTwin
    st,         \* "ok", "panicked" (a fatal error), "ub" (an access outside the
                \* allocation has happened), "crashed" (that access killed the process)
    ret,        \* what the last operation returned: a value, or None
    it,         \* the live Drain, or NoIter
    gh,         \* ghost: what the live Drain was created from and what it has yielded
    ref,        \* ghost: the reference sequence run side by side
    refret,     \* ghost: what the reference returned for the last operation
    pushed,     \* ghost: the values pushed, in order
    popped,     \* ghost: what the pops returned, in order
    last        \* ghost: the last operation, its arguments and the capacity before it

vars == <<elem_size, debug, cap, mem, len, live, twin, st, ret, it, gh, ref,
          refret, pushed, popped, last>>

---------------------------------------------------------------------------
(* Bounds of the model                                                     *)

MaxLen == 4          \* no push, insert or extend beyond this length
MaxInitCap == 3      \* with_capacity(n) for n in 0..MaxInitCap
MaxAdditional == 2   \* reserve(additional) for additional in 0..MaxAdditional
MaxCap == 6          \* reserve and extend are not called on a buffer larger than this
MaxExtend == 2       \* extend with at most this many elements

Values == {1, 2}                  \* element values pushed
ElemSizes == {0, 4, 512, 2048}    \* zero-sized, small, medium, large element types

---------------------------------------------------------------------------
(* Constants of the program and of the target                              *)

MIN_NON_ZERO_CAP == 8
MAX_EXCESS_CAPACITY == 1048576
MAX_CAPACITY == 1073741824
ISIZE_MAX == 2147483647
USIZE_MAX == 2147483647

Uninit == 0      \* a slot of fresh, never written memory
Garbage == -1    \* what a read outside the allocation finds
None == -2       \* Option::None

\* a sequence given by a function on 1..n, as the tuple of its values
Tuple(f) == SubSeq(f, 1, Len(f))

Min(a, b) == IF a <= b THEN a ELSE b
Max(a, b) == IF a >= b THEN a ELSE b

saturating_add(a, b) == IF a > USIZE_MAX - b THEN USIZE_MAX ELSE a + b
saturating_mul(a, b) ==
    IF a = 0 \/ b = 0 THEN 0
    ELSE IF a > USIZE_MAX \div b THEN USIZE_MAX ELSE a * b
saturating_sub(a, b) == IF b > a THEN 0 ELSE a - b

RECURSIVE Pow2AtLeast(_, _)
Pow2AtLeast(n, p) ==
    IF p >= n THEN p
    \* above 2^30 the next power of two is 2^31, for which USIZE_MAX stands
    ELSE IF p > USIZE_MAX \div 2 THEN USIZE_MAX
    ELSE Pow2AtLeast(n, 2 * p)

\* usize::next_power_of_two: the smallest power of two >= n (1 for n = 0)
next_power_of_two(n) == Pow2AtLeast(n, 1)

---------------------------------------------------------------------------
(* The vector as a value: the fields the operations below read and write.  *)
(* An operation names its receiver self and binds it once (LET s == self), *)
(* so that the receiver is evaluated once however often the body reads it. *)

Cur == [cap |-> cap, mem |-> mem, len |-> len, live |-> live, st |-> st,
        ret |-> ret]

\* a panic!, a failed assert!/expect, or a failed debug_assert! in a debug build
panic(s) == [s EXCEPT !.st = "panicked"]

\* an access outside the allocation: undefined behaviour
ub(s) == [s EXCEPT !.st = "ub"]

\* a step of a handler runs only while the handler has not panicked
Running(s) == s.st \in {"ok", "ub"}

\* RawVec.ptr is null: a buffer of a sized type that never allocated
IsNull(s) == elem_size /= 0 /\ s.cap = 0

\* the value in slot i as the machine finds it
Slot(s, i) ==
    IF elem_size = 0 THEN 1
    ELSE IF i < Len(s.mem) THEN s.mem[i + 1] ELSE Garbage

\* the elements of the container: slots [0, len)
Elems(s) == Tuple([i \in 1..s.len |-> Slot(s, i - 1)])

---------------------------------------------------------------------------
(* RawVec: capacity policy                                                 *)

\* A faulty policy, for contrast: the small tier triples the capacity.  Under it
\* C12_PushCapacitySequence fails.
calculate_growth_triple(self, required_cap) ==
    LET s == self IN
    LET min_growth ==
            IF elem_size > 1024
            THEN Min(saturating_add(s.cap, s.cap \div 4), required_cap)
            ELSE IF elem_size > 128
            THEN Min(saturating_add(s.cap, s.cap \div 2), required_cap)
            ELSE saturating_mul(s.cap, 3)
        new_cap0 == IF elem_size <= 128 THEN Max(min_growth, required_cap) ELSE min_growth
    IN  Min(new_cap0, MAX_CAPACITY)

\* A faulty policy, for contrast: the medium and large tiers take the step
\* (cap / 2, cap / 4) as the new capacity instead of adding it to cap.  Under it
\* C10_CapacityNeverDecreases fails.
calculate_growth_step_only(self, required_cap) ==
    LET s == self IN
    LET min_growth ==
            IF elem_size > 1024 THEN Min(s.cap \div 4, required_cap)
            ELSE IF elem_size > 128 THEN Min(s.cap \div 2, required_cap)
            ELSE saturating_mul(s.cap, 2)
        new_cap0 == IF elem_size <= 128 THEN Max(min_growth, required_cap) ELSE min_growth
    IN  Min(new_cap0, MAX_CAPACITY)

\* A faulty calculate_growth, for contrast: the result is not cut down to
\* MAX_CAPACITY.  Under it C37_CapacityWithinPlatformMaximum fails.
calculate_growth_unclamped(self, required_cap) ==
    LET s == self IN
    IF elem_size > 1024
    THEN Min(saturating_add(s.cap, s.cap \div 4), required_cap)
    ELSE IF elem_size > 128
    THEN Min(saturating_add(s.cap, s.cap \div 2), required_cap)
    ELSE LET new_cap0 == Max(saturating_mul(s.cap, 2), required_cap)
             next_pow2 == next_power_of_two(new_cap0)
         IN  IF /\ next_pow2 <= saturating_add(new_cap0, new_cap0 \div 8)
                /\ saturating_sub(next_pow2, new_cap0) * elem_size <= 16 * 1024
             THEN next_pow2 ELSE new_cap0

\* A faulty calculate_growth, for contrast: the steps of the medium and large
\* tiers are not capped at the request.  Under it C35_TieredGrowthStep fails.
calculate_growth_uncapped(self, required_cap) ==
    LET s == self IN
    IF elem_size > 1024 THEN Min(saturating_add(s.cap, s.cap \div 4), MAX_CAPACITY)
    ELSE IF elem_size > 128 THEN Min(saturating_add(s.cap, s.cap \div 2), MAX_CAPACITY)
    ELSE Min(Max(saturating_mul(s.cap, 2), required_cap), MAX_CAPACITY)

calculate_growth(self, required_cap) ==
    LET s == self IN
    LET min_growth ==
            IF elem_size > 1024
            THEN Min(saturating_add(s.cap, s.cap \div 4), required_cap)
            ELSE IF elem_size > 128
            THEN Min(saturating_add(s.cap, s.cap \div 2), required_cap)
            ELSE saturating_mul(s.cap, 2)
        new_cap0 == IF elem_size <= 128 THEN Max(min_growth, required_cap) ELSE min_growth
        next_pow2 == next_power_of_two(new_cap0)
        waste == saturating_sub(next_pow2, new_cap0)
        new_cap ==
            IF /\ elem_size <= 128
               /\ next_pow2 <= saturating_add(new_cap0, new_cap0 \div 8)
               /\ waste * elem_size <= 16 * 1024
            THEN next_pow2 ELSE new_cap0
    IN  Min(new_cap, MAX_CAPACITY)

\* no clone has been made
NoTwin ==
    [cap |-> 0, mem |-> <<>>, len |-> 0, live |-> 0, st |-> "none", ret |-> None]

\* RawVec::new
new ==
    [cap |-> 0, mem |-> <<>>, len |-> 0, live |-> 0, st |-> "ok", ret |-> None]

\* A faulty reallocation, for contrast: the new block is handed over without
\* the old slots.  Under it C34_ReallocationKeepsElements fails.
realloc_fresh(m, n) == Tuple([i \in 1..n |-> Uninit])

\* alloc::alloc of n slots / alloc::realloc to n slots: the old slots that fit are kept
realloc(m, n) == Tuple([i \in 1..n |-> IF i <= Len(m) THEN m[i] ELSE Uninit])

\* A faulty with_capacity, for contrast: the branch for zero-sized types is
\* missing.  Under it C18_ZeroSizedNeverAllocates fails.
with_capacity_sized(capacity) ==
    LET c == IF capacity = 0 THEN MIN_NON_ZERO_CAP ELSE capacity
    IN  [new EXCEPT !.cap = c, !.mem = realloc(<<>>, c), !.live = 1]

\* RawVec::with_capacity (Vec::with_capacity sets len 0)
with_capacity(capacity) ==
    IF elem_size = 0 THEN [new EXCEPT !.cap = USIZE_MAX]
    ELSE LET c == IF capacity = 0 THEN MIN_NON_ZERO_CAP ELSE capacity
         IN  [new EXCEPT !.cap = c, !.mem = realloc(<<>>, c), !.live = 1]

\* min(isize::MAX / size_of::<T>(), MAX_CAPACITY)
max_elements == Min(ISIZE_MAX \div Max(elem_size, 1), MAX_CAPACITY)

RECURSIVE grow_to(_, _)
grow_to(self, to_cap) ==
    LET s == self
        new_cap == to_cap
    IN
    IF debug /\ ~(new_cap > s.cap /\ new_cap <= MAX_CAPACITY) THEN panic(s)
    ELSE IF elem_size = 0 THEN [s EXCEPT !.cap = new_cap]
    \* Layout::array fails or its size exceeds isize::MAX: new_cap * size > isize::MAX
    ELSE IF new_cap > ISIZE_MAX \div elem_size
    THEN IF s.cap >= max_elements THEN s ELSE grow_to(s, max_elements)
    \* alloc::alloc if the buffer is empty; otherwise alloc::realloc
    ELSE [s EXCEPT !.mem = realloc(s.mem, new_cap), !.cap = new_cap,
                   !.live = IF s.cap = 0 THEN @ + 1 ELSE (@ - 1) + 1]

\* A faulty reserve, for contrast: the early return is taken only when the
\* request is strictly below the capacity, so reserve(0) grows the buffer.  Under
\* it C9_ReserveZeroIsNoOp fails.
reserve_strict(self, additional) ==
    LET s == self IN
    IF ~Running(s) THEN s
    ELSE IF elem_size = 0 THEN [s EXCEPT !.cap = USIZE_MAX]
    ELSE LET required_cap ==
                 IF s.cap > USIZE_MAX - additional THEN MAX_CAPACITY
                 ELSE s.cap + additional
             capped_required == Min(required_cap, max_elements)
         IN  IF capped_required < s.cap THEN s
             ELSE IF s.cap = 0
             THEN grow_to(s, next_power_of_two(Max(capped_required, MIN_NON_ZERO_CAP)))
             ELSE grow_to(s, calculate_growth(s, capped_required))

\* A faulty reserve, for contrast: the first allocation takes the growth
\* policy like any other, instead of a power of two of at least
\* MIN_NON_ZERO_CAP slots.  Under it C36_FirstGrowthIsPowerOfTwo fails.
reserve_no_first_step(self, additional) ==
    LET s == self IN
    IF ~Running(s) THEN s
    ELSE IF elem_size = 0 THEN [s EXCEPT !.cap = USIZE_MAX]
    ELSE LET required_cap ==
                 IF s.cap > USIZE_MAX - additional THEN MAX_CAPACITY
                 ELSE s.cap + additional
             capped_required == Min(required_cap, max_elements)
         IN  IF capped_required <= s.cap THEN s
             ELSE grow_to(s, calculate_growth(s, capped_required))

reserve(self, additional) ==
    LET s == self IN
    IF ~Running(s) THEN s
    ELSE IF elem_size = 0 THEN [s EXCEPT !.cap = USIZE_MAX]
    ELSE LET required_cap ==
                 IF s.cap > USIZE_MAX - additional THEN MAX_CAPACITY
                 ELSE s.cap + additional
             capped_required == Min(required_cap, max_elements)
         IN  IF capped_required <= s.cap THEN s
             ELSE IF s.cap = 0
             THEN grow_to(s, next_power_of_two(Max(capped_required, MIN_NON_ZERO_CAP)))
             ELSE grow_to(s, calculate_growth(s, capped_required))

\* A faulty should_shrink, for contrast: the wasted bytes are not looked at.
\* Under it C33_ShrinkExactlyWhenWorthIt fails.
should_shrink_usage_only(self, length) ==
    LET s == self IN
    IF elem_size = 0 THEN FALSE ELSE 4 * length < s.cap

\* A faulty should_shrink, for contrast: it never asks for a shrink.  Under it
\* C14_ShrinkAboveMinimum fails.
should_shrink_never(self, length) == FALSE

\* usage_ratio < 0.25 is len / cap < 1/4; waste_ratio > 0.25 is 1 - len / cap > 1/4.
\* Both are decided exactly by the integer cross-multiplications below for every
\* capacity the model reaches (the f64 quotient of two small integers is never
\* rounded across 1/4 or 3/4).
should_shrink(self, length) ==
    LET s == self IN
    IF elem_size = 0 THEN FALSE
    ELSE LET waste == s.cap - length
             waste_bytes == waste * elem_size
         IN  \/ waste_bytes > MAX_EXCESS_CAPACITY /\ 4 * length < 3 * s.cap
             \/ 4 * length < s.cap

\* A faulty shrink, for contrast: the check that the new capacity is below the
\* old one is missing.  Under it C13_ShrinkWithinBounds fails.
shrink_to_fit_raw_unchecked(self, length) ==
    LET s == self IN
    IF ~Running(s) THEN s
    ELSE IF elem_size = 0 THEN [s EXCEPT !.cap = USIZE_MAX]
    ELSE IF length >= s.cap - s.cap \div 4 THEN s
    ELSE IF should_shrink(s, length)
    THEN LET new_cap == Max(next_power_of_two(length), MIN_NON_ZERO_CAP)
         IN  [s EXCEPT !.mem = realloc(SubSeq(s.mem, 1, length), new_cap),
                       !.cap = new_cap]
    ELSE s

\* A faulty shrink, for contrast: the elements are not copied to the new
\* allocation.  Under it C15_TruncateKeepsPrefix fails.
shrink_to_fit_raw_fresh(self, length) ==
    LET s == self IN
    IF ~Running(s) THEN s
    ELSE IF elem_size = 0 THEN [s EXCEPT !.cap = USIZE_MAX]
    ELSE IF length >= s.cap - s.cap \div 4 THEN s
    ELSE IF should_shrink(s, length)
    THEN LET new_cap == Max(next_power_of_two(length), MIN_NON_ZERO_CAP)
         IN  IF new_cap < s.cap
             THEN [s EXCEPT !.mem = realloc(<<>>, new_cap), !.cap = new_cap]
             ELSE s
    ELSE s

shrink_to_fit_raw(self, length) ==
    LET s == self IN
    IF ~Running(s) THEN s
    ELSE IF elem_size = 0 THEN [s EXCEPT !.cap = USIZE_MAX]
    ELSE IF length >= s.cap - s.cap \div 4 THEN s
    ELSE IF should_shrink(s, length)
    THEN LET new_cap == Max(next_power_of_two(length), MIN_NON_ZERO_CAP)
         IN  IF new_cap < s.cap
             \* a new allocation; ptr::copy_nonoverlapping of the first length slots;
             \* alloc::dealloc of the old allocation
             THEN [s EXCEPT !.mem = realloc(SubSeq(s.mem, 1, length), new_cap),
                            !.cap = new_cap, !.live = (@ + 1) - 1]
             ELSE s
    ELSE s

---------------------------------------------------------------------------
(* RawVec: slot access and the shift engine                                *)

\* the debug_assert!s of read_at, write_at, get_ref, get_mut
SlotAsserts(s, index) == index < s.cap /\ ~IsNull(s)

read_at(self, index) ==
    LET s == self IN
    IF ~Running(s) THEN s
    ELSE IF debug /\ ~SlotAsserts(s, index) THEN panic(s)
    ELSE IF elem_size = 0 \/ index < s.cap THEN [s EXCEPT !.ret = Slot(s, index)]
    ELSE [ub(s) EXCEPT !.ret = Garbage]

write_at(self, index, item) ==
    LET s == self IN
    IF ~Running(s) THEN s
    ELSE IF debug /\ ~SlotAsserts(s, index) THEN panic(s)
    ELSE IF elem_size = 0 THEN s
    ELSE IF index < s.cap THEN [s EXCEPT !.mem[index + 1] = item]
    ELSE ub(s)

\* ptr::copy(ptr + src, ptr + dst, count): a memmove inside the buffer; the part
\* of it that falls outside the allocation is undefined behaviour
copy(self, src, dst, count) ==
    LET s == self IN
    IF elem_size = 0 \/ count = 0 THEN s
    ELSE LET moved == [s EXCEPT !.mem =
                 Tuple([i \in 1..Len(s.mem) |->
                     IF i - 1 >= dst /\ i - 1 < dst + count
                     THEN Slot(s, (i - 1) - dst + src)
                     ELSE s.mem[i]])]
         IN  IF src + count <= s.cap /\ dst + count <= s.cap THEN moved ELSE ub(moved)

shift_right(self, index, count, places) ==
    LET s == self IN
    IF ~Running(s) THEN s
    ELSE IF debug /\ ~(index <= s.cap /\ index + count <= s.cap) THEN panic(s)
    ELSE LET new_end == index + places + count
             s1 == IF new_end > s.cap THEN reserve(s, new_end - s.cap) ELSE s
         IN  IF ~Running(s1) THEN s1 ELSE copy(s1, index, index + places, count)

shift_left(self, index, count, places) ==
    LET s == self IN
    IF ~Running(s) THEN s
    ELSE IF count = 0 THEN s
    ELSE IF debug /\ ~(index >= places /\ index <= s.cap /\ index + count <= s.cap)
    THEN panic(s)
    \* index.checked_sub(places).expect(..)
    ELSE IF index < places THEN panic(s)
    ELSE copy(s, index, index - places, count)

---------------------------------------------------------------------------
(* Vec: the container                                                      *)

push(self, item) ==
    LET s == self IN
    IF ~Running(s) THEN s
    ELSE LET s1 == IF s.len = s.cap THEN reserve(s, Max(1, s.cap \div 2)) ELSE s
             s2 == write_at(s1, s1.len, item)
         IN  IF Running(s2) THEN [s2 EXCEPT !.len = @ + 1] ELSE s2

\* A faulty pop, for contrast: it reads the slot at the old length's index,
\* one past the last element.  Under it C24_PopTakesLast fails.
pop_past_end(self) ==
    LET s == self IN
    IF ~Running(s) THEN s
    ELSE IF s.len = 0 THEN [s EXCEPT !.ret = None]
    ELSE read_at([s EXCEPT !.len = @ - 1], s.len)

pop(self) ==
    LET s == self IN
    IF ~Running(s) THEN s
    ELSE IF s.len = 0 THEN [s EXCEPT !.ret = None]
    ELSE read_at([s EXCEPT !.len = @ - 1], s.len - 1)

\* A faulty insert, for contrast: the room is reserved before the index is
\* checked.  Under it C22_InsertOutOfBoundsPanics fails.
insert_reserve_first(self, index, item) ==
    LET s == self IN
    IF ~Running(s) THEN s
    ELSE LET s1 == IF s.len = s.cap THEN reserve(s, Max(1, s.cap \div 2)) ELSE s
         IN  IF index > s.len THEN panic(s1)
             ELSE LET s2 == shift_right(s1, index, s1.len - index, 1)
                      s3 == write_at(s2, index, item)
                  IN  IF Running(s3) THEN [s3 EXCEPT !.len = @ + 1] ELSE s3

\* A faulty insert, for contrast: it leaves the growth to shift_right, which
\* reserves one slot.  Under it C30_PushIsInsertAtLength fails.
insert_shift_only(self, index, item) ==
    LET s == self IN
    IF ~Running(s) THEN s
    ELSE IF index > s.len THEN panic(s)
    ELSE LET s1 == s
             s2 == shift_right(s1, index, s1.len - index, 1)
             s3 == write_at(s2, index, item)
         IN  IF Running(s3) THEN [s3 EXCEPT !.len = @ + 1] ELSE s3

insert(self, index, item) ==
    LET s == self IN
    IF ~Running(s) THEN s
    ELSE IF index > s.len THEN panic(s)
    ELSE LET s1 == IF s.len = s.cap THEN reserve(s, Max(1, s.cap \div 2)) ELSE s
             s2 == shift_right(s1, index, s1.len - index, 1)
             s3 == write_at(s2, index, item)
         IN  IF Running(s3) THEN [s3 EXCEPT !.len = @ + 1] ELSE s3

\* A faulty remove, for contrast: the slot is read before the index is checked.
\* Under it C23_OutOfBoundsAccessPanics fails.
remove_read_first(self, index) ==
    LET s == self IN
    IF ~Running(s) THEN s
    ELSE LET s1 == read_at(s, index)
         IN  IF index >= s.len THEN panic(s1)
             ELSE LET count == s.len - (index + 1)
                      s2 == shift_left(s1, index + 1, count, 1)
                  IN  IF Running(s2) THEN [s2 EXCEPT !.len = @ - 1] ELSE s2

remove(self, index) ==
    LET s == self IN
    IF ~Running(s) THEN s
    ELSE IF index >= s.len THEN panic(s)
    ELSE LET s1 == read_at(s, index)
             count == s.len - (index + 1)
             s2 == shift_left(s1, index + 1, count, 1)
         IN  IF Running(s2) THEN [s2 EXCEPT !.len = @ - 1] ELSE s2

\* RawVec::get_ref and RawVec::get_mut: ret is the element the reference is to
get_ref(self, index) ==
    LET s == self IN read_at(s, index)

get_mut(self, index) ==
    LET s == self IN read_at(s, index)

\* Index::index: v[index] read
index(self, i) ==
    LET s == self IN
    IF ~Running(s) THEN s
    ELSE IF i >= s.len THEN panic(s)
    ELSE get_ref(s, i)

\* IndexMut::index_mut: the reference v[index] = item assigns through
index_mut(self, i) ==
    LET s == self IN
    IF ~Running(s) THEN s
    ELSE IF i >= s.len THEN panic(s)
    ELSE get_mut(s, i)

\* v[index] = item: the assignment through the reference index_mut returned
index_assign(self, i, item) ==
    LET s == index_mut(self, i) IN
    IF s.st /= "ok" \/ elem_size = 0 THEN s
    ELSE [s EXCEPT !.mem[i + 1] = item]

shrink_to_fit(self) ==
    LET s == self IN shrink_to_fit_raw(s, s.len)

\* while self.len > len { self.pop(); }   /   while let Some(_) = self.pop() {}
RECURSIVE pop_until(_, _)
pop_until(self, length) ==
    LET s == self IN
    IF Running(s) /\ s.len > length THEN pop_until(pop(s), length) ELSE s

truncate(self, length) ==
    LET s == self IN
    LET s1 == pop_until(s, length)
    IN  IF Running(s1) /\ s1.len < s1.cap \div 4 THEN shrink_to_fit(s1) ELSE s1

\* A faulty clear, for contrast: it gives the unused memory back.  Under it
\* C17_ClearKeepsCapacity fails.
clear_shrinking(self) == shrink_to_fit(pop(pop_until(self, 0)))

\* the loop ends with the pop that returns None
clear(self) == pop(pop_until(self, 0))

RECURSIVE push_all(_, _)
push_all(self, items) ==
    LET s == self IN
    IF items = <<>> THEN s ELSE push_all(push(s, Head(items)), Tail(items))

\* Extend::extend with a sequence whose size_hint is exact: (n, Some(n))
extend(self, items) == push_all(reserve(self, Len(items)), items)

---------------------------------------------------------------------------
(* Drain: the range-removal iterator                                       *)

NoIter == [kind |-> "none", start |-> 0, end |-> 0, len |-> 0, original_start |-> 0]

\* ghost of a Drain: the elements and the range it was created from; per slot of
\* the original container, how many times the Drain has yielded it (yc) and how
\* many times its release has destroyed it (dc); and how many times its release
\* has compacted the tail
NoGhost == [orig |-> <<>>, a |-> 0, b |-> 0, yc |-> <<>>, dc |-> <<>>, shifts |-> 0]

\* Vec::drain: the asserts, then the length is cut and the iterator created
DrainOk(s, a, b) == a <= b /\ b <= s.len

\* A faulty drain, for contrast: a range that does not fit is cut down to the
\* contents instead of being refused.  Under it C39_BadDrainRangeFailsFirst
\* fails.
drain_clamping(self, a, b) ==
    LET s == self IN
    IF ~Running(s) THEN s
    ELSE LET e == Min(b, s.len)
         IN  [s EXCEPT !.len = @ - (e - Min(a, e))]

\* A faulty drain, for contrast: the length is left for the iterator's release
\* to cut.  Under it C26_DrainCutsLengthAtCreation fails.
drain_keep_len(self, a, b) ==
    LET s == self IN
    IF ~Running(s) THEN s
    ELSE IF ~DrainOk(s, a, b) THEN panic(s)
    ELSE s

drain(self, a, b) ==
    LET s == self IN
    IF ~Running(s) THEN s
    ELSE IF ~DrainOk(s, a, b) THEN panic(s)
    ELSE [s EXCEPT !.len = @ - (b - a)]

Drain_new(s, a, b) ==
    [kind |-> "drain", start |-> a, end |-> b, len |-> s.len, original_start |-> a]

\* Drain::next and Drain::next_back: the buffer after the step (ret is the item)
Drain_next(self, d) ==
    LET s == self IN
    IF d.start = d.end THEN [s EXCEPT !.ret = None] ELSE read_at(s, d.start)

Drain_next_cursor(d) ==
    IF d.start = d.end THEN d ELSE [d EXCEPT !.start = @ + 1]

Drain_next_back(self, d) ==
    LET s == self IN
    IF d.start = d.end THEN [s EXCEPT !.ret = None] ELSE read_at(s, d.end - 1)

Drain_next_back_cursor(d) ==
    IF d.start = d.end THEN d ELSE [d EXCEPT !.end = @ - 1]

\* Drop for Drain: the slots destroyed by drop_in_place, then the tail shift
Drain_drop_destroyed(d) == {i \in 0..(d.len - 1) : d.start <= i /\ i < d.end}

Drain_drop(self, d) ==
    LET s == self IN
    LET tail_remaining == d.len - d.end
    IN  IF tail_remaining > 0
        THEN shift_left(s, d.end, tail_remaining, d.end - d.original_start)
        ELSE s

---------------------------------------------------------------------------
(* The borrowing iterators, and size_hint                                  *)

\* Vec::iter: Iter::new(&self.buf, 0, self.len)
iter(s) ==
    [kind |-> "iter", start |-> 0, end |-> s.len, len |-> s.len,
     original_start |-> 0]

\* Vec::iter_mut: IterMut::new(&mut self.buf, 0, self.len)
iter_mut(s) ==
    [kind |-> "iter_mut", start |-> 0, end |-> s.len, len |-> s.len,
     original_start |-> 0]

\* Iter::next and Iter::next_back: ret is the element the reference is to
Iter_next(self, d) ==
    LET s == self IN
    IF d.start = d.end THEN [s EXCEPT !.ret = None] ELSE get_ref(s, d.start)

Iter_next_cursor(d) ==
    IF d.start = d.end THEN d ELSE [d EXCEPT !.start = @ + 1]

\* A faulty Iter::next_back, for contrast: it borrows at end before end is
\* decremented.  Under it C27_CursorsYieldEachIndexOnce fails.
Iter_next_back_at_end(self, d) ==
    LET s == self IN
    IF d.start = d.end THEN [s EXCEPT !.ret = None] ELSE get_ref(s, d.end)

Iter_next_back(self, d) ==
    LET s == self IN
    IF d.start = d.end THEN [s EXCEPT !.ret = None] ELSE get_ref(s, d.end - 1)

Iter_next_back_cursor(d) ==
    IF d.start = d.end THEN d ELSE [d EXCEPT !.end = @ - 1]

\* &mut *self.buf.ptr().add(i): no debug_assert on this path
deref_ptr_add(self, i) ==
    LET s == self IN
    IF elem_size = 0 \/ i < s.cap THEN [s EXCEPT !.ret = Slot(s, i)]
    ELSE [ub(s) EXCEPT !.ret = Garbage]

\* IterMut::next and IterMut::next_back
IterMut_next(self, d) ==
    LET s == self IN
    IF d.start = d.end THEN [s EXCEPT !.ret = None] ELSE deref_ptr_add(s, d.start)

IterMut_next_cursor(d) ==
    IF d.start = d.end THEN d ELSE [d EXCEPT !.start = @ + 1]

IterMut_next_back(self, d) ==
    LET s == self IN
    IF d.start = d.end THEN [s EXCEPT !.ret = None] ELSE deref_ptr_add(s, d.end - 1)

IterMut_next_back_cursor(d) ==
    IF d.start = d.end THEN d ELSE [d EXCEPT !.end = @ - 1]

\* size_hint of the four iterators: (lower, Some(upper)) as <<lower, upper>>
IntoIter_size_hint(d) == <<d.end - d.start, d.end - d.start>>

Iter_size_hint(d) == <<d.end - d.start, d.end - d.start>>

IterMut_size_hint(d) == <<d.end - d.start, d.end - d.start>>

\* A faulty Drain::size_hint, for contrast: it counts up to the original
\* length instead of the end of the window.  Under it C28_SizeHintIsRemaining
\* fails.
Drain_size_hint_to_len(d) == <<d.len - d.start, d.len - d.start>>

Drain_size_hint(d) == <<d.end - d.start, d.end - d.start>>

\* size_hint of the live iterator
size_hint(d) ==
    CASE d.kind = "into_iter" -> IntoIter_size_hint(d)
      [] d.kind = "iter" -> Iter_size_hint(d)
      [] d.kind = "iter_mut" -> IterMut_size_hint(d)
      [] d.kind = "drain" -> Drain_size_hint(d)

---------------------------------------------------------------------------
(* Clone                                                                   *)

\* RawVec::clone: a buffer of the same capacity (with_capacity turns 0 into
\* its minimum), into which the clone of every slot of [0, cap) is written.
\* The slots at index >= length hold no element: reading and cloning them is
\* undefined behaviour (the length is the Vec's, which passes itself as self).
RawVec_clone(self) ==
    LET s == self
        c == with_capacity(s.cap)
    IN  IF elem_size = 0 THEN c
        ELSE [c EXCEPT !.mem = Tuple([i \in 1..c.cap |->
                                         IF i <= s.cap THEN Slot(s, i - 1) ELSE Uninit]),
                       !.st = IF s.cap > s.len THEN "ub" ELSE "ok"]

\* The slots of the original whose elements RawVec::clone destroys: read_at
\* moves the value out of the slot (ptr::read), clone() borrows that temporary,
\* and the temporary is dropped at the end of the statement.
RawVec_clone_destroyed(s) == 0..(s.cap - 1)

\* Vec::clone: Vec { buf: self.buf.clone(), len: self.len }
clone(self) ==
    LET s == self IN [RawVec_clone(s) EXCEPT !.len = s.len]

---------------------------------------------------------------------------
(* The end of a container: its drop, and the owning iterator               *)

\* A faulty Drop for RawVec, for contrast: the buffer is not released.  Under it
\* C21_AllocationReleasedOnce fails.
RawVec_drop_leaking(self) == [self EXCEPT !.st = "dropped", !.ret = None]

\* Drop for RawVec: the buffer is released (nothing to release if it never
\* allocated or T is zero-sized); the slots are not looked at
RawVec_drop(self) ==
    LET s == self IN
    IF s.cap /= 0 /\ elem_size /= 0
    THEN [s EXCEPT !.mem = <<>>, !.live = @ - 1, !.st = "dropped", !.ret = None]
    ELSE [s EXCEPT !.st = "dropped", !.ret = None]

\* The slots whose elements the drop of a Vec destroys.  Vec has no Drop of its
\* own: dropping it drops its fields, buf (the RawVec above) and len.
Vec_drop_destroyed(s) == {i \in 0..(s.len - 1) : FALSE}

\* Vec::into_iter: the buffer moves into IntoIter { buf, start: 0, end: len }
into_iter(s) ==
    [kind |-> "into_iter", start |-> 0, end |-> s.len, len |-> s.len,
     original_start |-> 0]

\* IntoIter::next and IntoIter::next_back: the buffer after the step (ret is the item)
IntoIter_next(self, d) ==
    LET s == self IN
    IF d.start = d.end THEN [s EXCEPT !.ret = None] ELSE read_at(s, d.start)

IntoIter_next_cursor(d) ==
    IF d.start = d.end THEN d ELSE [d EXCEPT !.start = @ + 1]

IntoIter_next_back(self, d) ==
    LET s == self IN
    IF d.start = d.end THEN [s EXCEPT !.ret = None] ELSE read_at(s, d.end - 1)

IntoIter_next_back_cursor(d) ==
    IF d.start = d.end THEN d ELSE [d EXCEPT !.end = @ - 1]

\* The slots whose elements the drop of an IntoIter destroys.  IntoIter has no
\* Drop of its own: dropping it drops its fields, buf (the RawVec above), start
\* and end.
IntoIter_drop_destroyed(d) == {i \in d.start..(d.end - 1) : FALSE}

---------------------------------------------------------------------------
(* The reference sequence                                                  *)

InsertAt(q, i, x) == SubSeq(q, 1, i) \o <<x>> \o SubSeq(q, i + 1, Len(q))
RemoveAt(q, i) == SubSeq(q, 1, i) \o SubSeq(q, i + 2, Len(q))
RemoveRange(q, a, b) == SubSeq(q, 1, a) \o SubSeq(q, b + 1, Len(q))

RECURSIVE Reverse(_)
Reverse(q) == IF q = <<>> THEN <<>> ELSE Append(Reverse(Tail(q)), Head(q))

\* the values an element of the type can take: a zero-sized type has one
Vals == IF elem_size = 0 THEN {1} ELSE Values

SeqsUpTo(n) == UNION {[1..k -> Vals] : k \in 0..n}

---------------------------------------------------------------------------
(* Actions: one per public operation.  An action constrains the program's  *)
(* variables and last; each specification adds what its ghosts record.     *)

\* an operation that returns ()
unit(self) == [self EXCEPT !.ret = None]

\* the state the operation leaves; after undefined behaviour the build may go
\* on with the state the handler computed, or the process may have died
Commit(s, op, a, b) ==
    /\ \/ /\ cap' = s.cap
          /\ mem' = s.mem
          /\ len' = s.len
          /\ live' = s.live
          /\ st' = s.st
          /\ ret' = s.ret
       \/ /\ s.st = "ub"
          /\ st' = "crashed"
          /\ UNCHANGED <<cap, mem, len, live, ret>>
    /\ last' = [op |-> op, a |-> a, b |-> b, c0 |-> cap]
    /\ UNCHANGED <<elem_size, debug, twin>>

\* the container can be used: no fatal error so far and no Drain borrowing it
Idle == st = "ok" /\ it.kind = "none"

Push(x) ==
    /\ Idle
    /\ len < MaxLen
    /\ Commit(unit(push(Cur, x)), "push", 0, 0)
    /\ UNCHANGED it

Pop ==
    /\ Idle
    /\ Commit(pop(Cur), "pop", 0, 0)
    /\ UNCHANGED it

Insert(i, x) ==
    /\ Idle
    /\ len < MaxLen
    /\ Commit(unit(insert(Cur, i, x)), "insert", i, 0)
    /\ UNCHANGED it

IndexRead(i) ==
    /\ Idle
    /\ Commit(index(Cur, i), "index", i, 0)
    /\ UNCHANGED it

IndexWrite(i, x) ==
    /\ Idle
    /\ Commit(index_assign(Cur, i, x), "index_mut", i, 0)
    /\ UNCHANGED it

Remove(i) ==
    /\ Idle
    /\ Commit(remove(Cur, i), "remove", i, 0)
    /\ UNCHANGED it

Reserve(additional) ==
    /\ Idle
    /\ elem_size = 0 \/ cap <= MaxCap
    /\ Commit(unit(reserve(Cur, additional)), "reserve", additional, 0)
    /\ UNCHANGED it

Truncate(n) ==
    /\ Idle
    /\ Commit(unit(truncate(Cur, n)), "truncate", n, 0)
    /\ UNCHANGED it

Clear ==
    /\ Idle
    /\ Commit(unit(clear(Cur)), "clear", 0, 0)
    /\ UNCHANGED it

ShrinkToFit ==
    /\ Idle
    /\ Commit(unit(shrink_to_fit(Cur)), "shrink_to_fit", 0, 0)
    /\ UNCHANGED it

Extend(xs) ==
    /\ Idle
    /\ len + Len(xs) <= MaxLen
    /\ elem_size = 0 \/ cap <= MaxCap
    /\ Commit(unit(extend(Cur, xs)), "extend", Len(xs), 0)
    /\ UNCHANGED it

DrainCreate(a, b) ==
    /\ Idle
    /\ Commit(unit(drain(Cur, a, b)), "drain", a, b)
    /\ it' = IF DrainOk(Cur, a, b) THEN Drain_new(Cur, a, b) ELSE NoIter

Draining == st = "ok" /\ it.kind = "drain"

DrainNext ==
    /\ Draining
    /\ Commit(Drain_next(Cur, it), "drain_next", 0, 0)
    /\ it' = Drain_next_cursor(it)

DrainNextBack ==
    /\ Draining
    /\ Commit(Drain_next_back(Cur, it), "drain_next_back", 0, 0)
    /\ it' = Drain_next_back_cursor(it)

DrainRelease ==
    /\ Draining
    /\ Commit(unit(Drain_drop(Cur, it)), "drain_drop", 0, 0)
    /\ it' = NoIter

IterCreate ==
    /\ Idle
    /\ Commit(unit(Cur), "iter", 0, 0)
    /\ it' = iter(Cur)

IterMutCreate ==
    /\ Idle
    /\ Commit(unit(Cur), "iter_mut", 0, 0)
    /\ it' = iter_mut(Cur)

\* the container is borrowed by an iterator of this kind
Borrowed(kind) == st = "ok" /\ it.kind = kind

IterNext ==
    /\ Borrowed("iter")
    /\ Commit(Iter_next(Cur, it), "iter_next", 0, 0)
    /\ it' = Iter_next_cursor(it)

IterNextBack ==
    /\ Borrowed("iter")
    /\ Commit(Iter_next_back(Cur, it), "iter_next_back", 0, 0)
    /\ it' = Iter_next_back_cursor(it)

IterMutNext ==
    /\ Borrowed("iter_mut")
    /\ Commit(IterMut_next(Cur, it), "iter_mut_next", 0, 0)
    /\ it' = IterMut_next_cursor(it)

IterMutNextBack ==
    /\ Borrowed("iter_mut")
    /\ Commit(IterMut_next_back(Cur, it), "iter_mut_next_back", 0, 0)
    /\ it' = IterMut_next_back_cursor(it)

\* the Iter or IterMut goes out of scope: the borrow ends
IterRelease ==
    /\ Borrowed("iter") \/ Borrowed("iter_mut")
    /\ Commit(unit(Cur), "iter_drop", 0, 0)
    /\ it' = NoIter

\* RawVec::write_at, RawVec::shift_right and RawVec::shift_left called on the
\* buffer itself; last.b is <<count, places>>
WriteAt(i, x) ==
    /\ Idle
    /\ Commit(unit(write_at(Cur, i, x)), "write_at", i, x)
    /\ UNCHANGED it

ShiftRight(i, count, places) ==
    /\ Idle
    /\ Commit(unit(shift_right(Cur, i, count, places)), "shift_right", i,
              <<count, places>>)
    /\ UNCHANGED it

ShiftLeft(i, count, places) ==
    /\ Idle
    /\ Commit(unit(shift_left(Cur, i, count, places)), "shift_left", i,
              <<count, places>>)
    /\ UNCHANGED it

\* RawVec::shrink_to_fit(len) called on the buffer itself
ShrinkToFitRaw(length) ==
    /\ Idle
    /\ Commit(unit(shrink_to_fit_raw(Cur, length)), "shrink_to_fit_raw", length, 0)
    /\ UNCHANGED it

\* reserve on a buffer of at most maxcap slots
ReserveWithin(additional, maxcap) ==
    /\ Idle
    /\ elem_size = 0 \/ cap <= maxcap
    /\ Commit(unit(reserve(Cur, additional)), "reserve", additional, 0)
    /\ UNCHANGED it

\* let c = v.clone(): v is only borrowed; an undefined read inside the call
\* may go unnoticed or kill the process
Clone ==
    /\ Idle
    /\ twin' = clone(Cur)
    /\ \/ st' = st
       \/ clone(Cur).st = "ub" /\ st' = "crashed"
    /\ ret' = None
    /\ last' = [op |-> "clone", a |-> 0, b |-> 0, c0 |-> cap]
    /\ UNCHANGED <<elem_size, debug, cap, mem, len, live, it>>

\* the container goes out of scope
Destroy ==
    /\ Idle
    /\ Commit(RawVec_drop(Cur), "drop", 0, 0)
    /\ UNCHANGED it

IntoIterCreate ==
    /\ Idle
    /\ Commit(unit(Cur), "into_iter", 0, 0)
    /\ it' = into_iter(Cur)

Iterating == st = "ok" /\ it.kind = "into_iter"

IntoIterNext ==
    /\ Iterating
    /\ Commit(IntoIter_next(Cur, it), "into_iter_next", 0, 0)
    /\ it' = IntoIter_next_cursor(it)

IntoIterNextBack ==
    /\ Iterating
    /\ Commit(IntoIter_next_back(Cur, it), "into_iter_next_back", 0, 0)
    /\ it' = IntoIter_next_back_cursor(it)

\* the IntoIter goes out of scope
IntoIterRelease ==
    /\ Iterating
    /\ Commit(RawVec_drop(Cur), "into_iter_drop", 0, 0)
    /\ it' = NoIter

---------------------------------------------------------------------------
(* Spec: the container under every public operation, from Vec::new() or    *)
(* Vec::with_capacity(n), for every element size and both builds.          *)

\* Vec::new() or Vec::with_capacity(n)
Constructed(n) == IF n < 0 THEN new ELSE with_capacity(n)

\* the containers Vec::new() (n < 0) and Vec::with_capacity(n) make, of an
\* element type of one of the given sizes
InitOf(sizes, ns) ==
    /\ elem_size \in sizes
    /\ debug \in BOOLEAN
    /\ \E n \in ns :
          /\ cap = Constructed(n).cap
          /\ mem = Constructed(n).mem
          /\ live = Constructed(n).live
          /\ last = [op |-> IF n < 0 THEN "new" ELSE "with_capacity",
                     a |-> n, b |-> 0, c0 |-> 0]
    /\ len = 0
    /\ twin = NoTwin
    /\ st = "ok"
    /\ ret = None
    /\ it = NoIter
    /\ gh = NoGhost
    /\ ref = <<>>
    /\ refret = None
    /\ pushed = <<>>
    /\ popped = <<>>

InitWith(ns) == InitOf(ElemSizes, ns)

Init == InitWith(-1..MaxInitCap)

NoGhosts == UNCHANGED <<gh, ref, refret, pushed, popped>>

Next ==
    \/ \E x \in Vals : Push(x) /\ NoGhosts
    \/ Pop /\ NoGhosts
    \/ \E i \in 0..(len + 1), x \in Vals : Insert(i, x) /\ NoGhosts
    \/ \E i \in 0..len : Remove(i) /\ NoGhosts
    \/ \E additional \in 0..MaxAdditional : Reserve(additional) /\ NoGhosts
    \/ \E n \in 0..MaxLen : Truncate(n) /\ NoGhosts
    \/ Clear /\ NoGhosts
    \/ ShrinkToFit /\ NoGhosts
    \/ \E xs \in SeqsUpTo(MaxExtend) : Extend(xs) /\ NoGhosts
    \/ \E a \in 0..(len + 1), b \in 0..(len + 1) : DrainCreate(a, b) /\ NoGhosts
    \/ DrainNext /\ NoGhosts
    \/ DrainNextBack /\ NoGhosts
    \/ DrainRelease /\ NoGhosts

Spec == Init /\ [][Next]_vars

---------------------------------------------------------------------------
(* SpecDrain: a container of distinct elements, built by pushes, and the   *)
(* life of its Drains: created over a valid range, stepped forward and     *)
(* backward in any order, released at any point.                           *)

MaxDrainLen == 4     \* the drained container holds at most this many elements

\* element k of the drained container (a zero-sized type has one value)
Distinct(m) == Tuple([k \in 1..m |-> IF elem_size = 0 THEN 1 ELSE k])

\* the containers built by pushing Distinct(m), m in ms
InitFilled(ms) ==
    /\ elem_size \in ElemSizes
    /\ debug \in BOOLEAN
    /\ \E n \in -1..MaxInitCap, m \in ms :
          LET s == push_all(Constructed(n), Distinct(m))
          IN  /\ s.st = "ok"
              /\ cap = s.cap
              /\ mem = s.mem
              /\ len = s.len
              /\ live = s.live
              /\ ref = Elems(s)
              /\ last = [op |-> "push", a |-> 0, b |-> 0, c0 |-> s.cap]
    /\ twin = NoTwin
    /\ st = "ok"
    /\ ret = None
    /\ it = NoIter
    /\ gh = NoGhost
    /\ refret = None
    /\ pushed = <<>>
    /\ popped = <<>>

InitDrain == InitFilled(0..MaxDrainLen)

NextDrain ==
    \/ \E a \in 0..len, b \in 0..len :
          /\ a <= b
          /\ DrainCreate(a, b)
          /\ gh' = [NoGhost EXCEPT !.orig = Elems(Cur), !.a = a, !.b = b,
                                   !.yc = [i \in 1..len |-> 0],
                                   !.dc = [i \in 1..len |-> 0]]
          /\ ref' = RemoveRange(Elems(Cur), a, b)
          /\ refret' = None
          /\ UNCHANGED <<pushed, popped>>
    \/ /\ DrainNext
       /\ gh' = IF it.start = it.end THEN gh ELSE [gh EXCEPT !.yc[it.start + 1] = @ + 1]
       /\ refret' = IF it.start = it.end THEN None ELSE gh.orig[it.start + 1]
       /\ UNCHANGED <<ref, pushed, popped>>
    \/ /\ DrainNextBack
       /\ gh' = IF it.start = it.end THEN gh ELSE [gh EXCEPT !.yc[it.end] = @ + 1]
       /\ refret' = IF it.start = it.end THEN None ELSE gh.orig[it.end]
       /\ UNCHANGED <<ref, pushed, popped>>
    \/ /\ DrainRelease
       /\ gh' = [gh EXCEPT !.dc = [i \in 1..Len(@) |->
                                      IF i - 1 \in Drain_drop_destroyed(it)
                                      THEN @[i] + 1 ELSE @[i]],
                           !.shifts = IF it.len - it.end > 0 THEN @ + 1 ELSE @]
       /\ refret' = None
       /\ UNCHANGED <<ref, pushed, popped>>

SpecDrain == InitDrain /\ [][NextDrain]_vars

---------------------------------------------------------------------------
(* SpecRef: pushes, inserts and removes at valid indices, run side by side *)
(* with the reference sequence ref.                                        *)

NextRef ==
    \/ \E x \in Vals :
          /\ Push(x)
          /\ ref' = Append(ref, x)
          /\ refret' = None
          /\ UNCHANGED <<gh, pushed, popped>>
    \/ \E i \in 0..len, x \in Vals :
          /\ Insert(i, x)
          /\ ref' = InsertAt(ref, i, x)
          /\ refret' = None
          /\ UNCHANGED <<gh, pushed, popped>>
    \/ \E i \in 0..(len - 1) :
          /\ Remove(i)
          /\ ref' = RemoveAt(ref, i)
          /\ refret' = ref[i + 1]
          /\ UNCHANGED <<gh, pushed, popped>>

SpecRef == Init /\ [][NextRef]_vars

---------------------------------------------------------------------------
(* SpecStack: values pushed onto an empty container, then popped until one *)
(* pop more than was pushed.                                               *)

NextStack ==
    \/ \E x \in Vals :
          /\ popped = <<>>
          /\ Push(x)
          /\ pushed' = Append(pushed, x)
          /\ UNCHANGED <<gh, ref, refret, popped>>
    \/ /\ Len(popped) <= Len(pushed)
       /\ Pop
       /\ popped' = Append(popped, ret')
       /\ UNCHANGED <<gh, ref, refret, pushed>>

SpecStack == Init /\ [][NextStack]_vars

---------------------------------------------------------------------------
(* SpecGrow: a container from Vec::new() or Vec::with_capacity(n), n up to *)
(* MaxGrowCap, filled one element at a time by push or by insert at the    *)
(* end; the element pushed at length l is l + 1.  The calls that grow the  *)
(* buffer here are the ones whose request is 1.5 times the old capacity.   *)
(* SpecPushNew: the same by push alone, from Vec::new() alone.             *)

MaxGrowCap == 16     \* with_capacity(n) for n in 0..MaxGrowCap
MaxGrowLen == 17     \* no push or insert beyond this length

PushNext ==
    /\ Idle
    /\ len < MaxGrowLen
    /\ Commit(unit(push(Cur, len + 1)), "push", 0, 0)
    /\ UNCHANGED it

InsertNext ==
    /\ Idle
    /\ len < MaxGrowLen
    /\ Commit(unit(insert(Cur, len, len + 1)), "insert", len, 0)
    /\ UNCHANGED it

InitGrow == InitWith(-1..MaxGrowCap)

NextGrow ==
    \/ PushNext /\ NoGhosts
    \/ InsertNext /\ NoGhosts

SpecGrow == InitGrow /\ [][NextGrow]_vars

InitNew == InitWith({-1})

NextPushNew == PushNext /\ NoGhosts

SpecPushNew == InitNew /\ [][NextPushNew]_vars

---------------------------------------------------------------------------
(* SpecShrink: the same containers filled by push and cut back by          *)
(* truncate, clear and shrink_to_fit.                                      *)

NextShrink ==
    \/ PushNext /\ NoGhosts
    \/ \E n \in 0..(len + 1) : Truncate(n) /\ NoGhosts
    \/ Clear /\ NoGhosts
    \/ ShrinkToFit /\ NoGhosts

SpecShrink == InitGrow /\ [][NextShrink]_vars

---------------------------------------------------------------------------
(* SpecZst: Spec for a zero-sized element type alone.                      *)

InitZst == Init /\ elem_size = 0

SpecZst == InitZst /\ [][Next]_vars

---------------------------------------------------------------------------
(* SpecOwn: a container of distinct elements, built by pushes, and its     *)
(* end: dropped as it is, or turned into an owning iterator that is        *)
(* stepped forward and backward in any order and dropped at any point.     *)
(* gh records the elements, how often each was yielded (yc) and how often  *)
(* each was destroyed (dc).                                                *)

Counts(s, destroyed) ==
    [NoGhost EXCEPT !.orig = Elems(s), !.a = 0, !.b = s.len,
                    !.yc = [i \in 1..s.len |-> 0],
                    !.dc = [i \in 1..s.len |-> IF i - 1 \in destroyed THEN 1 ELSE 0]]

NextOwn ==
    \/ /\ Destroy
       /\ gh' = Counts(Cur, Vec_drop_destroyed(Cur))
       /\ UNCHANGED <<ref, refret, pushed, popped>>
    \/ /\ IntoIterCreate
       /\ gh' = Counts(Cur, {})
       /\ UNCHANGED <<ref, refret, pushed, popped>>
    \/ /\ IntoIterNext
       /\ gh' = IF it.start = it.end THEN gh ELSE [gh EXCEPT !.yc[it.start + 1] = @ + 1]
       /\ UNCHANGED <<ref, refret, pushed, popped>>
    \/ /\ IntoIterNextBack
       /\ gh' = IF it.start = it.end THEN gh ELSE [gh EXCEPT !.yc[it.end] = @ + 1]
       /\ UNCHANGED <<ref, refret, pushed, popped>>
    \/ /\ IntoIterRelease
       /\ gh' = [gh EXCEPT !.dc = [i \in 1..Len(@) |->
                                      IF i - 1 \in IntoIter_drop_destroyed(it)
                                      THEN @[i] + 1 ELSE @[i]]]
       /\ UNCHANGED <<ref, refret, pushed, popped>>

SpecOwn == InitDrain /\ [][NextOwn]_vars

---------------------------------------------------------------------------
(* SpecAlloc: the life of the allocation.  The containers of SpecGrow are  *)
(* grown by push and reserve, cut back by truncate and shrink_to_fit, and  *)
(* end by their drop or as an owning iterator that is stepped and dropped. *)

NextAlloc ==
    \/ PushNext /\ NoGhosts
    \/ \E additional \in 0..MaxAdditional : Reserve(additional) /\ NoGhosts
    \/ \E n \in 0..(len + 1) : Truncate(n) /\ NoGhosts
    \/ ShrinkToFit /\ NoGhosts
    \/ Destroy /\ NoGhosts
    \/ IntoIterCreate /\ NoGhosts
    \/ IntoIterNext /\ NoGhosts
    \/ IntoIterRelease /\ NoGhosts

SpecAlloc == InitGrow /\ [][NextAlloc]_vars

---------------------------------------------------------------------------
(* SpecAccess: containers of distinct elements, built by pushes, used       *)
(* through the calls that take an index, inside and outside the container, *)
(* and through push and pop.                                               *)

MaxAccessLen == 3    \* the container holds at most this many elements

\* the element the calls of SpecAccess put in: none of Distinct(m)
Fresh == IF elem_size = 0 THEN 1 ELSE MaxAccessLen + 1

InitAccess == InitFilled(0..MaxAccessLen)

NextAccess ==
    \/ len < MaxAccessLen /\ Push(Fresh) /\ NoGhosts
    \/ Pop /\ NoGhosts
    \/ \E i \in 0..(len + 2) : len < MaxAccessLen /\ Insert(i, Fresh) /\ NoGhosts
    \/ \E i \in 0..(len + 1) : Remove(i) /\ NoGhosts
    \/ \E i \in 0..(len + 1) : IndexRead(i) /\ NoGhosts
    \/ \E i \in 0..(len + 1) : IndexWrite(i, Fresh) /\ NoGhosts

SpecAccess == InitAccess /\ [][NextAccess]_vars

---------------------------------------------------------------------------
(* SpecClone: a container of distinct elements, built by pushes, and its   *)
(* clone.  gh records the elements of the original and how often each was  *)
(* destroyed (dc).                                                         *)

NextClone ==
    /\ Clone
    /\ gh' = Counts(Cur, RawVec_clone_destroyed(Cur))
    /\ UNCHANGED <<ref, refret, pushed, popped>>

SpecClone == InitDrain /\ [][NextClone]_vars

---------------------------------------------------------------------------
(* SpecIter: a container of distinct elements, built by pushes, under its  *)
(* four iterators, one at a time: each is created, stepped forward and     *)
(* backward in any order and dropped at any point.  gh records the         *)
(* elements at the creation of the iterator and how often each was yielded.*)

NextIter ==
    \/ /\ IterCreate
       /\ gh' = Counts(Cur, {})
       /\ UNCHANGED <<ref, refret, pushed, popped>>
    \/ /\ IterMutCreate
       /\ gh' = Counts(Cur, {})
       /\ UNCHANGED <<ref, refret, pushed, popped>>
    \/ /\ IterNext \/ IterMutNext
       /\ gh' = IF it.start = it.end THEN gh ELSE [gh EXCEPT !.yc[it.start + 1] = @ + 1]
       /\ UNCHANGED <<ref, refret, pushed, popped>>
    \/ /\ IterNextBack \/ IterMutNextBack
       /\ gh' = IF it.start = it.end THEN gh ELSE [gh EXCEPT !.yc[it.end] = @ + 1]
       /\ UNCHANGED <<ref, refret, pushed, popped>>
    \/ /\ IterRelease
       /\ UNCHANGED <<gh, ref, refret, pushed, popped>>
    \/ NextOwn
    \/ NextDrain

SpecIter == InitDrain /\ [][NextIter]_vars

---------------------------------------------------------------------------
(* SpecExtend: extend and clear in any order, run side by side with the    *)
(* reference sequence ref.                                                 *)

NextExtend ==
    \/ \E xs \in SeqsUpTo(MaxExtend) :
          /\ Extend(xs)
          /\ ref' = ref \o xs
          /\ UNCHANGED <<gh, refret, pushed, popped>>
    \/ /\ Clear
       /\ ref' = <<>>
       /\ UNCHANGED <<gh, refret, pushed, popped>>

SpecExtend == Init /\ [][NextExtend]_vars

---------------------------------------------------------------------------
(* SpecShift: the shift engine called on a raw buffer, from RawVec::new()  *)
(* or RawVec::with_capacity(n).  The buffer is filled from slot 0 upward,  *)
(* slot i with i + 1, and grown by reserve; then one shift is called: it   *)
(* moves count slots that lie inside the capacity, or no slot at all from  *)
(* any index up to one past the capacity.                                  *)

MaxPlaces == 2       \* a shift moves by at most this many places
MaxShiftCap == 4     \* no index or count above this

\* no shift has been called yet
Unshifted == last.op \notin {"shift_right", "shift_left"}

NextShift ==
    \/ \E i \in 0..(Min(cap, MaxShiftCap) - 1) :
          /\ Unshifted
          /\ elem_size /= 0 => Slot(Cur, i) = Uninit /\ (i > 0 => Slot(Cur, i - 1) /= Uninit)
          /\ elem_size = 0 => last.op /= "write_at"
          /\ WriteAt(i, i + 1)
          /\ NoGhosts
    \/ \E additional \in 1..MaxAdditional :
          /\ Unshifted
          /\ Reserve(additional)
          /\ NoGhosts
    \/ \E i \in 0..(Min(cap, MaxShiftCap) + 1), count \in 0..Min(cap, MaxShiftCap),
          places \in 0..MaxPlaces :
          /\ Unshifted
          /\ count = 0 \/ i + count <= cap
          /\ ShiftRight(i, count, places)
          /\ NoGhosts
    \/ \E i \in 0..(Min(cap, MaxShiftCap) + 1), count \in 0..Min(cap, MaxShiftCap),
          places \in 0..MaxPlaces :
          /\ Unshifted
          /\ count = 0 \/ (i >= places /\ i + count <= cap)
          /\ ShiftLeft(i, count, places)
          /\ NoGhosts

SpecShift == Init /\ [][NextShift]_vars

---------------------------------------------------------------------------
(* SpecShrinkRaw: RawVec::shrink_to_fit(len) called on a raw buffer for    *)
(* every len up to its capacity, with reserve to grow it again.  The       *)
(* element types include one of 512 KiB, of which three slots are more     *)
(* than MAX_EXCESS_CAPACITY bytes.                                         *)

ShrinkSizes == {0, 4, 2048, 524288}

InitShrinkRaw == InitOf(ShrinkSizes, -1..MaxGrowCap)

NextShrinkRaw ==
    \/ \E length \in 0..Min(cap, MaxGrowCap + 1) : ShrinkToFitRaw(length) /\ NoGhosts
    \/ \E additional \in 1..MaxAdditional : Reserve(additional) /\ NoGhosts

SpecShrinkRaw == InitShrinkRaw /\ [][NextShrinkRaw]_vars

---------------------------------------------------------------------------
(* SpecRealloc: containers of distinct elements, built by pushes, under    *)
(* the calls that can replace the allocation: reserve, push, insert and    *)
(* extend to grow it, shrink_to_fit and truncate to shrink it.             *)

NextRealloc ==
    \/ len < MaxAccessLen + 1 /\ Push(Fresh) /\ NoGhosts
    \/ \E i \in 0..len : len < MaxAccessLen + 1 /\ Insert(i, Fresh) /\ NoGhosts
    \/ \E xs \in {<<Fresh>>, <<Fresh, Fresh>>} :
          len + Len(xs) <= MaxAccessLen + 1 /\ Extend(xs) /\ NoGhosts
    \/ \E additional \in 1..MaxAdditional :
          ReserveWithin(additional, MIN_NON_ZERO_CAP) /\ NoGhosts
    \/ ShrinkToFit /\ NoGhosts
    \/ \E n \in 0..len : Truncate(n) /\ NoGhosts

SpecRealloc == InitAccess /\ [][NextRealloc]_vars

---------------------------------------------------------------------------
(* SpecGrowRaw: the growth policy by element size.  Buffers of element     *)
(* types on both sides of the tier boundaries (128 and 1024 bytes), from    *)
(* Vec::new() or Vec::with_capacity(n), under reserve(additional) for       *)
(* additional in 0..MaxReserve and under push.                              *)

GrowSizes == {1, 128, 129, 1024, 1025, 2048}
MaxReserve == 10     \* reserve(additional) for additional in 0..MaxReserve

InitGrowRaw == InitOf(GrowSizes, -1..MaxGrowCap)

NextGrowRaw ==
    \/ \E additional \in 0..MaxReserve :
          ReserveWithin(additional, MaxGrowCap) /\ NoGhosts
    \/ PushNext /\ NoGhosts

SpecGrowRaw == InitGrowRaw /\ [][NextGrowRaw]_vars

---------------------------------------------------------------------------
(* SpecFar: the capacity arithmetic of reserve next to the platform        *)
(* maximum.  A buffer of MAX_CAPACITY slots cannot be written out slot by   *)
(* slot, so the capacity that reserve leaves is computed here from the      *)
(* capacity alone: reserve_cap and grow_to_cap are reserve and grow_to      *)
(* without the memory.  FarReserve applies them to capacities up to         *)
(* max_elements and records the call in last (c0: the capacity it starts    *)
(* from, a: additional, b: the capacity it leaves); the capacity a call     *)
(* leaves is the starting capacity of a second one.  In the other behaviours *)
(* the container itself takes reserve, push and insert at small             *)
(* capacities, where every step can be compared with reserve_cap.           *)

RECURSIVE grow_to_cap(_, _)
\* the capacity grow_to(to_cap) leaves on a buffer of capacity c; a failed
\* debug_assert! leaves it as it was
grow_to_cap(c, to_cap) ==
    IF debug /\ ~(to_cap > c /\ to_cap <= MAX_CAPACITY) THEN c
    ELSE IF elem_size = 0 THEN to_cap
    ELSE IF to_cap > ISIZE_MAX \div elem_size
    THEN IF c >= max_elements THEN c ELSE grow_to_cap(c, max_elements)
    ELSE to_cap

\* the capacity reserve(additional) leaves on a buffer of capacity c
reserve_cap(c, additional) ==
    IF elem_size = 0 THEN USIZE_MAX
    ELSE LET required_cap ==
                 IF c > USIZE_MAX - additional THEN MAX_CAPACITY
                 ELSE c + additional
             capped_required == Min(required_cap, max_elements)
         IN  IF capped_required <= c THEN c
             ELSE IF c = 0
             THEN grow_to_cap(c, next_power_of_two(Max(capped_required, MIN_NON_ZERO_CAP)))
             ELSE grow_to_cap(c, calculate_growth([cap |-> c], capped_required))

FarSizes == {1, 2, 4, 512, 2048}

\* capacities up to the largest one a buffer of the element type can have
FarCaps ==
    {1, MIN_NON_ZERO_CAP, max_elements \div 3, max_elements \div 2,
     max_elements \div 2 + 1, (max_elements \div 16) * 15, max_elements - 1,
     max_elements}

FarAdds == {1, 2, max_elements \div 2, max_elements, MAX_CAPACITY, USIZE_MAX}

FarReserve(c, additional) ==
    /\ Idle
    /\ last' = [op |-> "far_reserve", a |-> additional,
                b |-> reserve_cap(c, additional), c0 |-> c]
    /\ UNCHANGED <<elem_size, debug, cap, mem, len, live, st, ret, twin, it>>

InitFar == InitOf(FarSizes, -1..MaxGrowCap)

\* the capacity that a call on one of FarCaps has left
FarLeft ==
    IF last.op = "far_reserve" /\ last.c0 \in FarCaps THEN {last.b} ELSE {}

\* no call has been made on the container itself
Untouched == last.op \in {"new", "with_capacity", "far_reserve"}

NextFar ==
    \/ /\ Untouched
       /\ \E c \in FarCaps \cup FarLeft :
             \E additional \in FarAdds : FarReserve(c, additional) /\ NoGhosts
    \/ /\ last.op /= "far_reserve"
       /\ \/ \E additional \in 0..MaxReserve :
                ReserveWithin(additional, MaxGrowCap) /\ NoGhosts
          \/ PushNext /\ NoGhosts
          \/ InsertNext /\ NoGhosts

SpecFar == InitFar /\ [][NextFar]_vars

---------------------------------------------------------------------------
(* SpecDrainRange: drain(a..b) for every range over 0..len + 1, the ones    *)
(* with a > b or b > len included, on containers of 0..MaxAccessLen         *)
(* elements; a Drain that was created is stepped and released.              *)

NextDrainRange ==
    \/ \E a \in 0..(len + 1), b \in 0..(len + 1) : DrainCreate(a, b) /\ NoGhosts
    \/ DrainNext /\ NoGhosts
    \/ DrainNextBack /\ NoGhosts
    \/ DrainRelease /\ NoGhosts

SpecDrainRange == InitAccess /\ [][NextDrainRange]_vars

---------------------------------------------------------------------------
(* The claims                                                              *)

\* C1 (as stated): in every reachable state length <= capacity, and a push or
\* insert performed when length = capacity (the capacity before it, last.c0,
\* equal to the length before it, len - 1) leaves capacity > old length.
C1_LengthWithinCapacity ==
    /\ len <= cap
    /\ (last.op \in {"push", "insert"} /\ st \in {"ok", "ub"} /\ len - 1 = last.c0)
           => cap > last.c0

\* C2 (as stated): every element a Drain over [a, b) yields is the element of
\* [ea..eb-1] its cursor stands on (refret), and after the release the container
\* has length m - (b - a) and equals [e0..ea-1, eb..em-1] (ref), however the
\* Drain was stepped.
C2_DrainLeavesRemainder ==
    /\ (last.op \in {"drain_next", "drain_next_back"} /\ ret /= None) => ret = refret
    /\ last.op = "drain_drop" =>
           /\ len = Len(gh.orig) - (gh.b - gh.a)
           /\ Elems(Cur) = ref

\* C3 (as stated): when a Drain over [a, b) is released, every element of [a, b)
\* has been yielded exactly once or destroyed exactly once, every tail element
\* is in the container exactly once, at its index minus (b - a), no yielded
\* element is still in the container, and the tail was compacted at most once.
C3_DrainReleaseExactlyOnce ==
    last.op = "drain_drop" =>
        /\ \A i \in (gh.a + 1)..gh.b : gh.yc[i] + gh.dc[i] = 1
        /\ \A i \in (gh.b + 1)..Len(gh.orig) :
               /\ i - (gh.b - gh.a) <= len
               /\ Slot(Cur, i - 1 - (gh.b - gh.a)) = gh.orig[i]
               /\ elem_size /= 0 =>
                      Cardinality({j \in 1..len : Slot(Cur, j - 1) = gh.orig[i]}) = 1
        /\ elem_size /= 0 =>
               \A i \in 1..Len(gh.orig) :
                   gh.yc[i] > 0 => \A j \in 1..len : Slot(Cur, j - 1) /= gh.orig[i]
        /\ gh.shifts <= 1

\* C4 (as stated): after every push, insert(i, x) with i <= length and remove(i)
\* with i < length, the container's length and elements equal the reference
\* sequence, and a remove returned what the reference returned.
C4_MatchesReference ==
    /\ len = Len(ref)
    /\ Elems(Cur) = ref
    /\ last.op = "remove" => ret = refret

\* C5 (as stated): in every state of the container, for every i <= length,
\* insert(i, x) followed by remove(i) returns x and leaves the length and the
\* elements as they were.
C5_InsertRemoveRoundTrip ==
    (Idle /\ len < MaxLen) =>
        \A i \in 0..len, x \in Vals :
            LET s1 == insert(Cur, i, x)
                s2 == remove(s1, i)
            IN  /\ s2.st = "ok"
                /\ s2.ret = x
                /\ s2.len = len
                /\ Elems(s2) = Elems(Cur)

\* C6 (as stated): the pushes of v0..vn-1 onto an empty container and the pops
\* that follow all succeed; the k-th pop returns v(n-k) for k <= n and none for
\* k = n + 1; after n pops the container is empty.
C6_StackLaw ==
    /\ st = "ok"
    /\ \A k \in 1..Len(popped) :
           popped[k] = IF k <= Len(pushed) THEN pushed[Len(pushed) + 1 - k] ELSE None
    /\ Len(popped) >= Len(pushed) /\ popped /= <<>> => len = 0

\* C7 (as stated): after reserve(additional) has returned, capacity is at least
\* length + additional.
C7_ReserveFromLength ==
    (last.op = "reserve" /\ st = "ok") => cap >= len + last.a

\* C8 (as stated): after reserve(additional) has returned on a buffer of
\* capacity c, with c + additional within the platform maximum, the capacity is
\* at least c + additional.
C8_ReserveFromCapacity ==
    (last.op = "reserve" /\ st = "ok" /\ last.c0 <= MAX_CAPACITY - last.a)
        => cap >= last.c0 + last.a

C10_CapacityNeverDecreases ==
    last.op \in {"push", "insert", "reserve", "extend"} => cap >= last.c0

\* a growth-triggering call has just grown an allocated buffer of a medium or
\* large element type
C10_GrewAllocatedBuffer ==
    /\ last.op \in {"push", "insert", "reserve", "extend"}
    /\ elem_size > 128
    /\ last.c0 > 0
    /\ cap > last.c0
    /\ st = "ok"

\* C11 (as stated): for an element size <= 128 bytes, every push, insert,
\* reserve or extend that changes the capacity from old > 0 to new has
\* 1.2 * old <= new <= 2.0 * old.
C11_GrowthRatio ==
    (/\ elem_size <= 128
     /\ last.op \in {"push", "insert", "reserve", "extend"}
     /\ last.c0 > 0
     /\ cap /= last.c0)
        => (5 * cap >= 6 * last.c0 /\ cap <= 2 * last.c0)

\* C12: from Vec::new() with a small element type, after every push the
\* capacity is at least the capacity before it and, if that was not zero, at
\* most twice it.
C12_PushCapacitySequence ==
    (elem_size /= 0 /\ elem_size <= 128 /\ last.op = "push")
        => (cap >= last.c0 /\ (last.c0 > 0 => cap <= 2 * last.c0))

\* the push that finds 16 elements in 16 slots has grown the buffer to 32
C12_SecondDoubling ==
    /\ elem_size = 4
    /\ last.op = "push"
    /\ last.c0 = 16
    /\ cap = 32
    /\ len = 17

C14_ShrinkBelowQuarter ==
    (last.op = "shrink_to_fit" /\ elem_size /= 0 /\ last.c0 > 0 /\ 4 * len < last.c0)
        => cap < last.c0

\* C14 (amended): for a type that is not zero-sized, a shrink_to_fit() called
\* with length / capacity < 25% leaves the capacity at the smaller of the old
\* capacity and max(next_power_of_two(length), 8): a strict decrease when the
\* old capacity is above 8, no change when it is 8 or less.
C14_ShrinkAboveMinimum ==
    (last.op = "shrink_to_fit" /\ elem_size /= 0 /\ last.c0 > 0 /\ 4 * len < last.c0)
        => /\ cap = Min(last.c0, Max(next_power_of_two(len), MIN_NON_ZERO_CAP))
           /\ last.c0 > MIN_NON_ZERO_CAP => cap < last.c0
           /\ last.c0 <= MIN_NON_ZERO_CAP => cap = last.c0

\* a shrink_to_fit() called below 25% usage on more than 8 slots has reduced
\* the capacity to 8
C14_ShrunkToMinimum ==
    /\ last.op = "shrink_to_fit"
    /\ elem_size /= 0
    /\ 4 * len < last.c0
    /\ last.c0 > MIN_NON_ZERO_CAP
    /\ cap = MIN_NON_ZERO_CAP

\* C15: after truncate(n) the length is min(old length, n) and the elements are
\* the first min(old length, n) elements the container held before the call,
\* in the same order, also when truncate has shrunk the buffer.
C15_TruncateKeepsPrefix ==
    [][last'.op = "truncate" =>
           /\ len' = Min(len, last'.a)
           /\ Elems(Cur)' = SubSeq(Elems(Cur), 1, Min(len, last'.a))]_vars

\* a truncate has cut a container down, shrunk its buffer and left elements
C15_TruncatedAndShrunk ==
    /\ last.op = "truncate"
    /\ elem_size /= 0
    /\ cap < last.c0
    /\ 0 < len /\ len = last.a

\* C16 (as stated): when the length p.len that truncate's pops leave has
\* p.len * 4 < capacity, truncate ends in the state shrink_to_fit() gives at
\* that point.
C16_TruncateShrinksBelowQuarter ==
    [][last'.op = "truncate" =>
           LET p == pop_until(Cur, last'.a)
           IN  4 * p.len < p.cap =>
                   /\ cap' = shrink_to_fit(p).cap
                   /\ mem' = shrink_to_fit(p).mem
                   /\ len' = p.len]_vars

\* C17: clear() leaves length 0 and the capacity it found, and pushing up to
\* that many elements afterwards leaves the capacity unchanged.
C17_ClearKeepsCapacity ==
    last.op = "clear" =>
        /\ len = 0
        /\ cap = last.c0
        /\ \A k \in 0..Min(cap, MaxGrowLen) :
               LET s == push_all(Cur, Distinct(k))
               IN  s.st = "ok" /\ s.len = k /\ s.cap = cap

\* a clear() has emptied a container of more than 8 slots that held elements
C17_ClearedLargeBuffer ==
    /\ last.op = "clear"
    /\ elem_size /= 0
    /\ cap > MIN_NON_ZERO_CAP
    /\ mem[1] /= Uninit
    /\ len = 0

C19_DropDestroysElements ==
    last.op = "drop" =>
        /\ \A i \in 1..Len(gh.orig) : gh.dc[i] = 1
        /\ mem = <<>>

\* C20 (as stated): when an owning iterator is dropped, every element of the
\* original container has been yielded exactly once or destroyed exactly once,
\* and the buffer is released.
C20_IntoIterDropDestroysRest ==
    last.op = "into_iter_drop" =>
        /\ \A i \in 1..Len(gh.orig) : gh.yc[i] + gh.dc[i] = 1
        /\ mem = <<>>

\* C21 (as stated): the buffer's allocation is released exactly once.  While
\* the container or its owning iterator lives, exactly one allocation is live
\* if the owner's drop will release one (a sized element type and a nonzero
\* capacity) and none otherwise, through every growth and shrink; once the
\* owner is dropped no allocation is live and none was released twice.
C21_AllocationReleasedOnce ==
    /\ live \in {0, 1}
    /\ st \in {"ok", "ub", "panicked", "crashed"} =>
           live = IF elem_size /= 0 /\ cap /= 0 THEN 1 ELSE 0
    /\ st = "dropped" => live = 0

\* C21 witness: a buffer that grew and was then moved into an owning iterator
\* has been released by the iterator's drop.
C21_GrownBufferReleased ==
    /\ last.op = "into_iter_drop"
    /\ st = "dropped"
    /\ elem_size /= 0
    /\ last.c0 > MaxGrowCap
    /\ live = 0

\* C22 (as stated): insert(index, item) with index > length fails fatally
\* before anything is changed: the length, the capacity and every slot are
\* what they were.
C22_InsertOutOfBoundsPanics ==
    [][(last'.op = "insert" /\ last'.a > len)
           => /\ st' = "panicked"
              /\ len' = len
              /\ cap' = cap
              /\ mem' = mem
              /\ live' = live]_vars

\* C22 witness: an insert past the end of a full container has failed.
C22_InsertPastEndOfFull ==
    /\ last.op = "insert"
    /\ last.a > len
    /\ len = cap
    /\ len > 0
    /\ st = "panicked"

\* C23 (as stated): remove(index), the indexed read and the indexed write with
\* index >= length fail fatally: nothing is moved out (ret is what it was) and
\* the length, the capacity and every slot are what they were.
C23_OutOfBoundsAccessPanics ==
    [][(last'.op \in {"remove", "index", "index_mut"} /\ last'.a >= len)
           => /\ st' = "panicked"
              /\ ret' = ret
              /\ len' = len
              /\ cap' = cap
              /\ mem' = mem]_vars

\* C23 witness: an indexed write at index = length, inside the capacity, has
\* failed on a container that holds elements.
C23_WriteAtLengthFailed ==
    /\ last.op = "index_mut"
    /\ last.a = len
    /\ len > 0
    /\ len < cap
    /\ st = "panicked"

\* C24 (as stated): pop on an empty container returns none and changes
\* nothing; otherwise it returns the element at index length - 1, the length
\* drops by one, and the capacity and the elements at [0, length - 1) are what
\* they were; the vacated slot lies beyond the new length.
C24_PopTakesLast ==
    [][(last'.op = "pop")
           => /\ st' = "ok"
              /\ cap' = cap
              /\ IF len = 0
                 THEN ret' = None /\ len' = 0 /\ mem' = mem
                 ELSE /\ ret' = Slot(Cur, len - 1)
                      /\ len' = len - 1
                      /\ Elems(Cur)' = SubSeq(Elems(Cur), 1, len - 1)]_vars

\* C24 witness: a pop has taken the last of several elements.
C24_PoppedLastOfSeveral ==
    /\ last.op = "pop"
    /\ len >= 2
    /\ ret \notin {None, Garbage, Uninit}
    /\ st = "ok"

\* C25 (as stated): clone() produces an independent container with the same
\* length, equal elements at every index of [0, length) and capacity >= length,
\* and leaves the original intact: its length, capacity and elements are what
\* they were (gh.orig, last.c0) and none of its elements was destroyed.
C25_CloneLeavesOriginalIntact ==
    (last.op = "clone" /\ st = "ok")
        => /\ twin.st = "ok"
           /\ twin.len = len
           /\ Elems(twin) = Elems(Cur)
           /\ twin.cap >= twin.len
           /\ twin.live = (IF elem_size = 0 THEN 0 ELSE 1)
           /\ Elems(Cur) = gh.orig
           /\ cap = last.c0
           /\ \A i \in 1..len : gh.dc[i] = 0

\* C26 (as stated): when drain(a..b) has returned its iterator and nothing has
\* been yielded yet, the container's length is the original length minus
\* (b - a), and the iterator's window is [a, b) with its original length the
\* length before the call.
C26_DrainCutsLengthAtCreation ==
    (last.op = "drain" /\ st = "ok")
        => /\ it.kind = "drain"
           /\ len = Len(gh.orig) - (last.b - last.a)
           /\ it.start = last.a
           /\ it.end = last.b
           /\ it.original_start = last.a
           /\ it.len = Len(gh.orig)
           /\ \A i \in 1..Len(gh.orig) : gh.yc[i] = 0
           /\ cap = last.c0
           /\ \A i \in 1..Len(gh.orig) : Slot(Cur, i - 1) = gh.orig[i]

\* C26 witness: a Drain over an inner range of several elements has just been
\* created.
C26_InnerDrainCreated ==
    /\ last.op = "drain"
    /\ st = "ok"
    /\ it.kind = "drain"
    /\ 0 < last.a
    /\ last.a + 1 < last.b
    /\ last.b < Len(gh.orig)

\* C27 (as stated): the borrowing, the mutably borrowing and the owning
\* iterator over a container of n elements start with the cursors at 0 and n;
\* a forward step yields the element at start and advances start, a backward
\* step yields the element at end - 1 and retreats end, in any interleaving;
\* the cursors never cross; every index outside [start, end) has been yielded
\* exactly once and none inside it has; once start = end every step returns
\* none and moves nothing.
C27_CursorsYieldEachIndexOnce ==
    [][/\ last'.op \in {"iter", "iter_mut", "into_iter"}
           => /\ it'.start = 0
              /\ it'.end = len
              /\ gh'.orig = Elems(Cur)
       /\ last'.op \in {"iter_next", "iter_mut_next", "into_iter_next",
                        "iter_next_back", "iter_mut_next_back",
                        "into_iter_next_back"}
           => /\ st' = "ok"
              /\ IF it.start = it.end
                 THEN ret' = None /\ it' = it
                 ELSE IF last'.op \in {"iter_next", "iter_mut_next", "into_iter_next"}
                 THEN /\ ret' = gh.orig[it.start + 1]
                      /\ it' = [it EXCEPT !.start = @ + 1]
                 ELSE /\ ret' = gh.orig[it.end]
                      /\ it' = [it EXCEPT !.end = @ - 1]
              /\ it'.start <= it'.end
              /\ \A i \in 1..Len(gh.orig) :
                     gh'.yc[i] = IF i <= it'.start \/ i > it'.end THEN 1 ELSE 0]_vars

\* C27 witness: a borrowing iterator over four elements has been exhausted by
\* forward and backward steps, the last one a backward step, and each element
\* was yielded once.
C27_IterExhaustedBothWays ==
    /\ it.kind = "iter"
    /\ last.op = "iter_next_back"
    /\ Len(gh.orig) = MaxDrainLen
    /\ it.start = it.end
    /\ it.start = 2
    /\ ret = gh.orig[3]
    /\ \A i \in 1..Len(gh.orig) : gh.yc[i] = 1

\* C28 (as stated): for each of the four iterators, after any forward and
\* backward steps, size_hint is (end - start, end - start), and that is the
\* number of elements of its window not yet yielded.
C28_SizeHintIsRemaining ==
    (it.kind /= "none" /\ st = "ok")
        => /\ size_hint(it) = <<it.end - it.start, it.end - it.start>>
           /\ size_hint(it)[1] =
                  Cardinality({i \in (gh.a + 1)..gh.b : gh.yc[i] = 0})

\* C28 witness: a Drain over a range that leaves a tail has yielded from both
\* ends and still has elements to yield.
C28_DrainPartlyYielded ==
    /\ it.kind = "drain"
    /\ st = "ok"
    /\ gh.b < Len(gh.orig)
    /\ gh.a < it.start
    /\ it.start < it.end
    /\ it.end < gh.b

\* C29 (as stated): after any interleaving of extend and clear the container
\* matches the reference sequence extended and cleared the same way: extend
\* appends the elements of its sequence in order after the existing ones
\* (length = old length + sequence length, the old elements unchanged), and
\* the call completes.
C29_ExtendMatchesReference ==
    (last.op \in {"extend", "clear"})
        => /\ st = "ok"
           /\ len = Len(ref)
           /\ Elems(Cur) = ref

\* C30 (as stated): for every container state and element size, push(item)
\* and insert(length, item) produce the same resulting state: the same length,
\* the same elements at [0, length), the same capacity (and the same outcome
\* of the call).  Whichever of the two a step takes, its result is the one
\* the other yields from the same state.
C30_PushIsInsertAtLength ==
    [][(last'.op \in {"push", "insert"} /\ st' /= "crashed")
           => LET p == push(Cur, len + 1)
                  i == insert(Cur, len, len + 1)
              IN  /\ p.st = i.st
                  /\ p.len = i.len
                  /\ p.cap = i.cap
                  /\ Elems(p) = Elems(i)
                  /\ p.mem = i.mem
                  /\ st' = p.st
                  /\ len' = i.len
                  /\ cap' = p.cap
                  /\ mem' = i.mem]_vars

\* C30 witness: an insert at the length has grown a full allocated buffer.
C30_InsertAtLengthGrew ==
    /\ last.op = "insert"
    /\ last.a = len - 1
    /\ st = "ok"
    /\ last.c0 = len - 1
    /\ last.c0 > 0
    /\ cap > last.c0

\* C31 (as stated): for every element size and every index, count, places
\* with index + count <= capacity, once shift_right(index, count, places) has
\* gone through its growth step the capacity is at least index + places +
\* count.
C31_ShiftRightCoversNewEnd ==
    (/\ last.op = "shift_right"
     /\ st \in {"ok", "ub"}
     /\ last.a + last.b[1] <= last.c0)
        => cap >= last.a + last.b[2] + last.b[1]

\* C32 (as stated): a shift_right or shift_left call with count = 0 is a no-op
\* for every index and places: it completes, and the capacity, the slots and
\* the allocation are what they were.
C32_ShiftOfNothingIsNoOp ==
    [][(last'.op \in {"shift_right", "shift_left"} /\ last'.b[1] = 0)
           => /\ st' = "ok"
              /\ cap' = cap
              /\ mem' = mem
              /\ live' = live]_vars

\* C33 (as stated): shrink_to_fit changes the capacity if and only if
\* (length * 4 < capacity, or the wasted bytes (capacity - length) * element
\* size exceed 1 MB while more than 25% is wasted) and
\* max(next_power_of_two(length), 8) < capacity; the new capacity is then
\* exactly that maximum, and otherwise the capacity is unchanged.
C33_ShrinkExactlyWhenWorthItAnySize ==
    [][(last'.op = "shrink_to_fit_raw")
           => LET length == last'.a
                  target == Max(next_power_of_two(length), MIN_NON_ZERO_CAP)
                  worth ==
                      /\ \/ 4 * length < cap
                         \/ /\ (cap - length) * elem_size > MAX_EXCESS_CAPACITY
                            /\ 4 * length < 3 * cap
                      /\ target < cap
              IN  cap' = IF worth THEN target ELSE cap]_vars

\* C33 (corrected): the same for an element type that is not zero-sized; for a
\* zero-sized one shrink_to_fit sets the capacity to usize::MAX whatever the
\* length.
C33_ShrinkExactlyWhenWorthIt ==
    [][(last'.op = "shrink_to_fit_raw")
           => LET length == last'.a
                  target == Max(next_power_of_two(length), MIN_NON_ZERO_CAP)
                  worth ==
                      /\ \/ 4 * length < cap
                         \/ /\ (cap - length) * elem_size > MAX_EXCESS_CAPACITY
                            /\ 4 * length < 3 * cap
                      /\ target < cap
              IN  /\ st' = "ok"
                  /\ elem_size = 0 => cap' = USIZE_MAX
                  /\ elem_size /= 0 => cap' = IF worth THEN target ELSE cap
                  /\ elem_size /= 0 => (cap' /= cap <=> worth)]_vars

\* C33 witness: a buffer used to a quarter or more has been shrunk because of
\* its wasted bytes.
C33_ShrunkForWastedBytes ==
    /\ last.op = "shrink_to_fit_raw"
    /\ elem_size /= 0
    /\ 4 * last.a >= last.c0
    /\ cap < last.c0
    /\ cap = MIN_NON_ZERO_CAP

\* C34 (as stated): every reallocation, by a growth (reserve, push, insert,
\* extend) or by a shrink (shrink_to_fit, truncate), leaves the length and the
\* elements at [0, length) as they were and in the same order: whenever one
\* of these calls has changed the capacity, the container holds what the call
\* leaves without a reallocation (the old elements, with the new ones added
\* or the cut ones gone).
C34_ReallocationKeepsElements ==
    [][(/\ cap' /= cap
        /\ last'.op \in {"reserve", "push", "insert", "extend", "shrink_to_fit",
                         "truncate"})
           => /\ st' = "ok"
              /\ Len(mem') = IF elem_size = 0 THEN 0 ELSE cap'
              /\ CASE last'.op \in {"reserve", "shrink_to_fit"} ->
                          len' = len /\ Elems(Cur)' = Elems(Cur)
                   [] last'.op = "push" ->
                          Elems(Cur)' = Elems(Cur) \o <<Fresh>>
                   [] last'.op = "insert" ->
                          Elems(Cur)' = InsertAt(Elems(Cur), last'.a, Fresh)
                   [] last'.op = "extend" ->
                          Elems(Cur)' = Elems(Cur) \o [i \in 1..last'.a |-> Fresh]
                   [] last'.op = "truncate" ->
                          Elems(Cur)' = SubSeq(Elems(Cur), 1, Min(last'.a, len))]_vars

\* C34 witness: a shrink has replaced the allocation of a container that holds
\* several elements.
C34_ShrunkWithElements ==
    /\ last.op \in {"shrink_to_fit", "truncate"}
    /\ elem_size /= 0
    /\ cap < last.c0
    /\ len >= 2
    /\ st = "ok"

\* the part of the old capacity that one growth step of the tier adds at most
TierDivisor == IF elem_size > 1024 THEN 4 ELSE 2

C37_CapacityWithinPlatformMaximum ==
    [][/\ last'.op = "far_reserve"
          => /\ last'.b <= MAX_CAPACITY
             /\ last'.b <= max_elements
             /\ last'.b >= last'.c0
       /\ last'.op \in {"reserve", "push", "insert"}
          => /\ cap' <= MAX_CAPACITY
             /\ last'.op = "reserve" => cap' = reserve_cap(cap, last'.a)]_vars

\* C37 witness: a reserve that asks for more than the platform maximum, on a
\* capacity just below it, has left exactly MAX_CAPACITY slots.
C37_GrownToPlatformMaximum ==
    /\ last.op = "far_reserve"
    /\ last.c0 < MAX_CAPACITY
    /\ last.c0 > MAX_CAPACITY \div 2
    /\ last.c0 + last.a > MAX_CAPACITY
    /\ last.b = MAX_CAPACITY

\* C39 (as stated): drain(a..b) with a > b or b > length fails fatally before
\* it changes anything: the length, the capacity and the elements are as
\* they were and no iterator is created.
C39_BadDrainRangeFailsFirst ==
    [][(last'.op = "drain" /\ (last'.a > last'.b \/ last'.b > len))
           => /\ st' = "panicked"
              /\ len' = len
              /\ cap' = cap
              /\ mem' = mem
              /\ it' = NoIter]_vars

\* C39 witness: a drain whose range ends beyond the length of a container
\* that holds elements has failed.
C39_DrainBeyondLengthFailed ==
    /\ last.op = "drain"
    /\ last.a <= last.b
    /\ last.b > len
    /\ len > 0
    /\ st = "panicked"

\* C38 (as stated): no operation reads, duplicates, moves out or relocates as
\* live a slot that is not occupied; exactly the slots [0, length) are
\* occupied, and clone touches element values only there: after a clone
\* every slot it read and moved out of the original lies below the length,
\* and the clone was made without an undefined read.
C38_OnlyOccupiedSlotsTouched ==
    last.op = "clone"
        => /\ twin.st /= "ub"
           /\ elem_size /= 0 => \A i \in RawVec_clone_destroyed(Cur) : i < len

====
